---- MODULE Spec2Model ----
(***************************************************************************)
(* PhotoShare: users, photos (posts), tags and comments behind the route   *)
(* handlers of src/src/routes and the repository functions of              *)
(* src/src/repository.  One action per route handler; an action covers the *)
(* dependencies of the route, the handler and the repository call it makes.*)
(*                                                                         *)
(* Strings that the code splits, trims or case-folds are sequences of      *)
(* one-character strings.  An Optional[T] is a sequence of length <= 1:    *)
(* None is <<>> and a present value x is <<x>>.                            *)
(***************************************************************************)
EXTENDS Integers, Sequences, FiniteSets, TLC

VARIABLES
    users,      \* users table: sequence of rows, the row's id is its index
    issued,     \* refresh tokens issued so far: issued[t] is the "sub" of token t
    posts,      \* posts table: function from post id to row
    post_seq,   \* last id handed out by posts.id
    tags,       \* tags table: sequence of names, the row's id is its index
    comments,   \* comments table: function from comment id to row
    comment_seq,\* last id handed out by comments.id
    cloud,      \* the asset host: cloud[k] says whether the asset with
                \* public_id k, the k-th uploaded, is still hosted
    inflight,   \* requests handled step by step: their position and locals
    last        \* the request handled last and its response

vars == <<users, issued, posts, post_seq, tags, comments, comment_seq, cloud,
         inflight, last>>

\* ------------------------------------------------------------------ bounds

MaxUsers == 3
MaxTokens == 3
MaxPosts == 1
MaxComments == 1
MaxAllowed == 3

\* ---------------------------------------------------------------- optionals

None == <<>>
Some(x) == <<x>>
IsNone(o) == o = <<>>

\* ------------------------------------------------------------------- roles

Role == {"ADMIN", "MODERATOR", "USER"}

\* ----------------------------------------------------------------- strings

\* str.split(","): always at least one part, empty parts are kept
RECURSIVE SplitAcc(_, _, _)
SplitAcc(s, cur, acc) ==
    IF s = <<>> THEN Append(acc, cur)
    ELSE IF Head(s) = "," THEN SplitAcc(Tail(s), <<>>, Append(acc, cur))
    ELSE SplitAcc(Tail(s), Append(cur, Head(s)), acc)

split(s) == SplitAcc(s, <<>>, <<>>)

RECURSIVE lstrip(_)
lstrip(s) == IF s # <<>> /\ Head(s) = " " THEN lstrip(Tail(s)) ELSE s

RECURSIVE rstrip(_)
rstrip(s) ==
    IF s # <<>> /\ s[Len(s)] = " " THEN rstrip(SubSeq(s, 1, Len(s) - 1)) ELSE s

\* str.strip()
strip(s) == rstrip(lstrip(s))

\* ",".join(list)
RECURSIVE join(_)
join(l) ==
    IF l = <<>> THEN <<>>
    ELSE IF Len(l) = 1 THEN l[1]
    ELSE l[1] \o <<",">> \o join(Tail(l))

LowerChar(c) ==
    CASE c = "A" -> "a" [] c = "C" -> "c" [] c = "D" -> "d"
      [] c = "G" -> "g" [] c = "O" -> "o" [] c = "T" -> "t"
      [] OTHER -> c

\* str.casefold() (Python) on the letters used here
casefold(s) == [i \in 1..Len(s) |-> LowerChar(s[i])]

\* func.lower() (SQL) on the letters used here
lower(s) == [i \in 1..Len(s) |-> LowerChar(s[i])]

\* [f(x) for x in l]
StripAll(l) == [i \in 1..Len(l) |-> strip(l[i])]

\* [x for x in l if x]
RECURSIVE DropEmpty(_)
DropEmpty(l) ==
    IF l = <<>> THEN <<>>
    ELSE IF Head(l) = <<>> THEN DropEmpty(Tail(l))
    ELSE <<Head(l)>> \o DropEmpty(Tail(l))

Range(f) == {f[i] : i \in DOMAIN f}

HasDuplicates(l) == \E i, j \in DOMAIN l : i # j /\ l[i] = l[j]

\* ------------------------------------------------------------------ rows

\* entity/models.py User: the columns the handlers read or write; the
\* accounts the specifications start with have their email as username
UserRow(email, role) ==
    [username |-> email, email |-> email, role |-> role, refresh_token |-> None]

\* PostRow without user_id=user.id: the photo belongs to no user
PostRow_unowned(user_id, description, tag_ids, asset) ==
    [user_id |-> 0, description |-> description, transformed_url |-> None,
     qr_code_path |-> None, tags |-> tag_ids, url |-> asset.url,
     public_id |-> asset.public_id]

\* entity/models.py Post; asset is what the asset host answered to the upload
PostRow(user_id, description, tag_ids, asset) ==
    [user_id |-> user_id, description |-> description, transformed_url |-> None,
     qr_code_path |-> None, tags |-> tag_ids, url |-> asset.url,
     public_id |-> asset.public_id]

\* entity/models.py Comment
CommentRow(user_id, post_id, content) ==
    [user_id |-> user_id, post_id |-> post_id, comment_content |-> content]

\* the response recorded for a request: the operation, the authenticated
\* caller (a user id, 0 when the route takes no bearer identity), the path id
\* (for a creation, the id of the new row), the HTTP status, and in arg the
\* part of the request body the properties below read (None otherwise)
Response(op, caller, id, status) ==
    [op |-> op, caller |-> caller, id |-> id, status |-> status, arg |-> None]

WithArg(r, arg) == [r EXCEPT !.arg = arg]

NoRequest == Response("none", 0, 0, 0)

UserIds == DOMAIN users

\* -------------------------------------------------------- auth: signup

\* repository get_user_by_email: the ids of the rows with this email (the
\* column is unique, so at most one)
get_user_by_email(email) == {i \in DOMAIN users : users[i].email = email}

\* repository get_user_by_username: the ids of the rows with this username
get_user_by_username(username) ==
    {i \in DOMAIN users : users[i].username = username}

\* repository create_user: User(**body.model_dump()), the role is the body's
create_user(body) == [UserRow(body.email, body.role) EXCEPT !.username = body.username]

\* the unique constraint of users.username lets the commit of this row through
username_unique(username, user_id) == get_user_by_username(username) \subseteq {user_id}

\* POST /auth/signup: body is a UserSchema.  The route looks the email up;
\* a username already taken is met by the unique constraint at the commit in
\* create_user, whose IntegrityError nothing catches: 500 and no row.
signup(body) ==
    /\ IF get_user_by_email(body.email) # {}
       THEN /\ last' = WithArg(Response("signup", 0, 0, 409), body)
            /\ UNCHANGED users
       ELSE IF ~username_unique(body.username, 0)
       THEN /\ last' = WithArg(Response("signup", 0, 0, 500), body)
            /\ UNCHANGED users
       ELSE /\ users' = Append(users, create_user(body))
            /\ last' = WithArg(Response("signup", 0, Len(users) + 1, 201), body)
    /\ UNCHANGED <<issued, posts, post_seq, tags, comments, comment_seq, cloud, inflight>>

\* ------------------------------------------------- users: update profile

\* repository update_user, lines 111-114: the username of the request is
\* set, not empty, and the username of another user
update_user_username_taken(user_id, body) ==
    /\ ~IsNone(body.username)
    /\ get_user_by_username(body.username[1]) \ {user_id} # {}

\* PUT /users/update: body is a UserUpdateSchema; a field left out of the
\* request is None here
update_me(body, user) ==
    /\ user \in UserIds
    /\ IF update_user_username_taken(user, body)
       THEN /\ last' = WithArg(Response("update_me", user, user, 400), body)
            /\ UNCHANGED users
       ELSE /\ users' = IF IsNone(body.username) THEN users
                        ELSE [users EXCEPT ![user].username = body.username[1]]
            /\ last' = WithArg(Response("update_me", user, user, 200), body)
    /\ UNCHANGED <<issued, posts, post_seq, tags, comments, comment_seq, cloud, inflight>>

\* --------------------------------------------------- auth: refresh tokens

\* auth_service.create_refresh_token: a token never issued before, with the
\* email as its subject
create_refresh_token(email, by) == Append(issued, [sub |-> email, by |-> by])

\* auth_service.decode_refresh_token: the subject of a token this service
\* issued; any other value is refused with 401
decode_refresh_token(token) ==
    IF token \in DOMAIN issued THEN Some(issued[token].sub) ELSE None

\* update_token that keeps a refresh token already stored
update_token_keeps_first(user, token) ==
    IF token # None /\ users[user].refresh_token # None THEN users
    ELSE [users EXCEPT ![user].refresh_token = token]

\* repository update_token
update_token(user, token) == [users EXCEPT ![user].refresh_token = token]

\* POST /auth/login: the form's username is the email; password_ok is what
\* auth_service.verify_password answers for the form's password
login(email, password_ok) ==
    LET found == get_user_by_email(email)
        user == CHOOSE i \in found : TRUE
    IN  IF found = {} \/ ~password_ok
        THEN /\ last' = Response("login", 0, 0, 401)
             /\ UNCHANGED <<users, issued, posts, post_seq, tags, comments, comment_seq, cloud, inflight>>
        ELSE /\ issued' = create_refresh_token(email, "login")
             /\ users' = update_token(user, Some(Len(issued) + 1))
             /\ last' = Response("login", user, Len(issued) + 1, 200)
             /\ UNCHANGED <<posts, post_seq, tags, comments, comment_seq, cloud, inflight>>

\* refresh_token_mismatch without the comparison
refresh_token_mismatch_never(user, token) == FALSE

\* routes/auth.py refresh_token, line 104: user.refresh_token != token
refresh_token_mismatch(user, token) == users[user].refresh_token # Some(token)

\* GET /auth/refresh_token with the bearer credential token
refresh_token(token) ==
    LET email == decode_refresh_token(token)
        user == CHOOSE i \in get_user_by_email(email[1]) : TRUE
    IN  IF IsNone(email)
        THEN /\ last' = Response("refresh_token", 0, token, 401)
             /\ UNCHANGED <<users, issued, posts, post_seq, tags, comments, comment_seq, cloud, inflight>>
        ELSE IF refresh_token_mismatch(user, token)
        THEN /\ users' = update_token(user, None)
             /\ last' = Response("refresh_token", user, token, 401)
             /\ UNCHANGED <<issued, posts, post_seq, tags, comments, comment_seq, cloud, inflight>>
        ELSE /\ issued' = create_refresh_token(email[1], "refresh")
             /\ users' = update_token(user, Some(Len(issued) + 1))
             /\ last' = Response("refresh_token", user, token, 200)
             /\ UNCHANGED <<posts, post_seq, tags, comments, comment_seq, cloud, inflight>>

\* ------------------------------------------------- photos: tag resolution

\* select(Tag).filter_by(name=tag_name): the ids of the rows with this name
TagsByName(table, name) == {i \in DOMAIN table : table[i] = name}

\* TagsByLowerName finding no row, whatever the table holds
TagsByLowerName_none(table, name) == {}

\* select(Tag).where(func.lower(Tag.name) == tag_name.casefold())
TagsByLowerName(table, name) ==
    {i \in DOMAIN table : lower(table[i]) = casefold(name)}

\* routes/photos.py create_photo: the tags form field to a list of names
tags_list(tags_field) ==
    IF ~IsNone(tags_field) /\ tags_field[1] # <<>>
    THEN StripAll(split(tags_field[1]))
    ELSE <<>>

\* repository create_photo, the loop over tags: look each name up, create the
\* missing ones; the result is the tags table and the tag ids in order
RECURSIVE create_photo_tags(_, _, _)
create_photo_tags(names, table, objs) ==
    IF names = <<>> THEN [table |-> table, tag_objects |-> objs]
    ELSE LET found == TagsByName(table, Head(names)) IN
         IF found # {}
         THEN create_photo_tags(Tail(names), table,
                                Append(objs, CHOOSE i \in found : TRUE))
         ELSE create_photo_tags(Tail(names), Append(table, Head(names)),
                                Append(objs, Len(table) + 1))

\* repository update_photo_description: parts of ",".join(body.tags)
tag_parts(body_tags) == DropEmpty(StripAll(split(join(body_tags))))

\* normalize_tags with the spelling itself as the key
RECURSIVE normalize_tags_exact(_, _, _)
normalize_tags_exact(parts, seen, out) ==
    IF parts = <<>> THEN out
    ELSE LET key == Head(parts) IN
         IF key \in seen
         THEN normalize_tags_exact(Tail(parts), seen, out)
         ELSE normalize_tags_exact(Tail(parts), seen \cup {key}, Append(out, Head(parts)))

\* the seen/normalized_tags loop: first spelling of each case-folded key
RECURSIVE normalize_tags(_, _, _)
normalize_tags(parts, seen, out) ==
    IF parts = <<>> THEN out
    ELSE LET key == casefold(Head(parts)) IN
         IF key \in seen
         THEN normalize_tags(Tail(parts), seen, out)
         ELSE normalize_tags(Tail(parts), seen \cup {key}, Append(out, Head(parts)))

normalized_tags(body_tags) == normalize_tags(tag_parts(body_tags), {}, <<>>)

\* the loop over normalized_tags: scalar_one_or_none() raises when more than
\* one row matches (ok = FALSE), otherwise the row is reused or created
RECURSIVE update_photo_tags(_, _, _)
update_photo_tags(names, table, objs) ==
    IF names = <<>> THEN [ok |-> TRUE, table |-> table, tag_objects |-> objs]
    ELSE LET found == TagsByLowerName(table, Head(names)) IN
         IF Cardinality(found) > 1
         THEN [ok |-> FALSE, table |-> table, tag_objects |-> objs]
         ELSE IF found # {}
         THEN update_photo_tags(Tail(names), table,
                                Append(objs, CHOOSE i \in found : TRUE))
         ELSE update_photo_tags(Tail(names), Append(table, Head(names)),
                                Append(objs, Len(table) + 1))

\* ------------------------------------------------------- the asset host

\* CloudinaryService.upload_image: the url and the public_id of the asset the
\* host stores for this upload, the next one it has not handed out
upload_image == [url |-> <<"url", Len(cloud) + 1>>, public_id |-> Len(cloud) + 1]

\* the asset host after upload_image
uploaded == Append(cloud, TRUE)

\* CloudinaryService.delete_image: the asset host after destroy(public_id)
delete_image(public_id) == [cloud EXCEPT ![public_id] = FALSE]

\* ------------------------------------------------------ photos: handlers

\* POST /: routes create_photo and repository create_photo.  The file goes
\* to the asset host first.  Two equal entries in tag_objects are two equal
\* rows of post_tags, whose primary key rejects the second: the commit fails
\* and nothing is stored.
create_photo(user, description, tags_field) ==
    LET r == create_photo_tags(tags_list(tags_field), tags, <<>>)
        id == post_seq + 1
    IN  /\ user \in UserIds
        /\ IF HasDuplicates(r.tag_objects)
           THEN /\ last' = WithArg(Response("create_photo", user, 0, 500), tags_field)
                /\ UNCHANGED <<posts, post_seq, tags>>
           ELSE /\ posts' = (id :> PostRow(user, description, r.tag_objects,
                                             upload_image)) @@ posts
                /\ post_seq' = id
                /\ tags' = r.table
                /\ last' = WithArg(Response("create_photo", user, id, 201), tags_field)
        /\ cloud' = uploaded
        /\ UNCHANGED <<users, issued, comments, comment_seq, inflight>>

\* update_photo_check without the owner comparison
update_photo_check_any_user(photo_id, user) ==
    IF photo_id \notin DOMAIN posts THEN 404 ELSE 200

\* repository update_photo_description, lines 62-70: load, 404, owner check
update_photo_check(photo_id, user) ==
    IF photo_id \notin DOMAIN posts THEN 404
    ELSE IF posts[photo_id].user_id # user THEN 403
    ELSE 200

\* photo_update as a full replacement: a field the request leaves out is
\* written as None
photo_update_full_replace(photo_id, body) ==
    LET post == posts[photo_id]
        r == update_photo_tags(normalized_tags(body.tags[1]), tags, <<>>)
        p2 == [post EXCEPT !.description = body.description,
                           !.transformed_url = body.transformed_url]
    IN  IF IsNone(body.tags)
        THEN [status |-> 200, posts |-> [posts EXCEPT ![photo_id] = p2], tags |-> tags]
        ELSE IF ~r.ok
        THEN [status |-> 500, posts |-> posts, tags |-> tags]
        ELSE [status |-> 200,
              posts |-> [posts EXCEPT ![photo_id] = [p2 EXCEPT !.tags = r.tag_objects]],
              tags |-> r.table]

\* repository update_photo_description, lines 72-115: the partial update of a
\* loaded post; the result is the status and the posts and tags tables
photo_update(photo_id, body) ==
    LET post == posts[photo_id]
        r == update_photo_tags(normalized_tags(body.tags[1]), tags, <<>>)
        p1 == IF IsNone(body.description) THEN post
              ELSE [post EXCEPT !.description = body.description]
        p2 == IF IsNone(body.transformed_url) THEN p1
              ELSE [p1 EXCEPT !.transformed_url = body.transformed_url]
    IN  IF IsNone(body.tags)
        THEN [status |-> 200, posts |-> [posts EXCEPT ![photo_id] = p2], tags |-> tags]
        ELSE IF ~r.ok
        THEN [status |-> 500, posts |-> posts, tags |-> tags]
        ELSE [status |-> 200,
              posts |-> [posts EXCEPT ![photo_id] = [p2 EXCEPT !.tags = r.tag_objects]],
              tags |-> r.table]

\* PUT /{photo_id}: body is [description, transformed_url, tags], each optional
update_photo_description(photo_id, body, user) ==
    LET status == update_photo_check(photo_id, user)
        r == photo_update(photo_id, body)
    IN  /\ user \in UserIds
        /\ IF status # 200
           THEN /\ last' = WithArg(Response("update_photo", user, photo_id, status), body)
                /\ UNCHANGED <<posts, tags>>
           ELSE /\ posts' = r.posts
                /\ tags' = r.tags
                /\ last' = WithArg(Response("update_photo", user, photo_id, r.status), body)
        /\ UNCHANGED <<users, issued, post_seq, comments, comment_seq, cloud, inflight>>

\* repository delete_photo, lines 121-129: load, 404, owner check
delete_photo_check(photo_id, user) ==
    IF photo_id \notin DOMAIN posts THEN 404
    ELSE IF posts[photo_id].user_id # user THEN 403
    ELSE 204

\* the rows left in a table (a function) after deleting the ids in gone
Without(table, gone) == [k \in DOMAIN table \ gone |-> table[k]]

\* db.delete(post): Post.comments cascades "all, delete-orphan"
delete_post_rows(photo_id) ==
    /\ posts' = Without(posts, {photo_id})
    /\ comments' = Without(comments, {c \in DOMAIN comments : comments[c].post_id = photo_id})

\* DELETE /{photo_id}
delete_photo(photo_id, user) ==
    LET status == delete_photo_check(photo_id, user)
    IN  /\ user \in UserIds
        /\ last' = Response("delete_photo", user, photo_id, status)
        /\ IF status = 204
           THEN delete_post_rows(photo_id)
           ELSE UNCHANGED <<posts, comments>>
        /\ UNCHANGED <<users, issued, post_seq, tags, comment_seq, cloud, inflight>>

\* CloudinaryService.transform_image: the supported names
transformations == {"resize", "crop", "grayscale", "quality"}

\* select(Post).filter_by(id=photo_id, user_id=user.id)
own_photo(photo_id, user) ==
    photo_id \in DOMAIN posts /\ posts[photo_id].user_id = user

\* POST /transform
transform_photo(photo_id, transformation, user) ==
    /\ user \in UserIds
    /\ IF ~own_photo(photo_id, user)
       THEN /\ last' = Response("transform_photo", user, photo_id, 404)
            /\ UNCHANGED posts
       ELSE IF transformation \notin transformations
       THEN /\ last' = Response("transform_photo", user, photo_id, 400)
            /\ UNCHANGED posts
       ELSE /\ posts' = [posts EXCEPT ![photo_id].transformed_url = Some(transformation)]
            /\ last' = Response("transform_photo", user, photo_id, 200)
    /\ UNCHANGED <<users, issued, post_seq, tags, comments, comment_seq, cloud, inflight>>

\* "if not photo.transformed_url": None and the empty string are both falsy
Falsy(o) == IsNone(o) \/ o[1] = ""

\* POST /{photo_id}/generate_qr
generate_qr_code(photo_id, user) ==
    /\ user \in UserIds
    /\ IF ~own_photo(photo_id, user)
       THEN /\ last' = Response("generate_qr_code", user, photo_id, 404)
            /\ UNCHANGED posts
       ELSE IF Falsy(posts[photo_id].transformed_url)
       THEN /\ last' = Response("generate_qr_code", user, photo_id, 400)
            /\ UNCHANGED posts
       ELSE /\ posts' = [posts EXCEPT ![photo_id].qr_code_path = Some("qr")]
            /\ last' = Response("generate_qr_code", user, photo_id, 200)
    /\ UNCHANGED <<users, issued, post_seq, tags, comments, comment_seq, cloud, inflight>>

\* ------------------------------------------------------------ role checks

\* "x in allowed_roles" for a list
InList(x, l) == \E i \in DOMAIN l : l[i] = x

\* RoleAccess with ADMIN let through whatever the route permits
RoleAccess_admin_bypass(allowed_roles, role) ==
    IF role # "ADMIN" /\ ~InList(role, allowed_roles) THEN 403 ELSE 200

\* services/roles.py RoleAccess.__call__: the status of the dependency
RoleAccess(allowed_roles, role) ==
    IF ~InList(role, allowed_roles) THEN 403 ELSE 200

\* dependencies.py require_role(*allowed_roles) -> role_checker
role_checker(allowed_roles, role) ==
    IF ~InList(role, allowed_roles) THEN 403 ELSE 200

\* routes/photos.py admin_required = RoleAccess([Role.ADMIN])
admin_required == <<"ADMIN">>

\* ------------------------------------------------- photos: admin routes

\* repository admin_update_photo_description: the partial update of any
\* photo, None when the id resolves to no photo
admin_update_photo_description(photo_id, body) ==
    IF photo_id \notin DOMAIN posts
    THEN [status |-> 404, posts |-> posts, tags |-> tags]
    ELSE photo_update(photo_id, body)

\* PUT /admin/{photo_id}
admin_update_photo(photo_id, body, user) ==
    LET gate == RoleAccess(admin_required, users[user].role)
        r == admin_update_photo_description(photo_id, body)
    IN  /\ user \in UserIds
        /\ IF gate # 200
           THEN /\ last' = Response("admin_update_photo", user, photo_id, gate)
                /\ UNCHANGED <<posts, tags>>
           ELSE /\ posts' = r.posts
                /\ tags' = r.tags
                /\ last' = Response("admin_update_photo", user, photo_id, r.status)
        /\ UNCHANGED <<users, issued, post_seq, comments, comment_seq, cloud, inflight>>

\* repository admin_delete_photo: whether the id resolves to a photo to delete
admin_delete_photo_found(photo_id) == photo_id \in DOMAIN posts

\* repository admin_delete_photo: the asset host after the deletion, which
\* asks it to delete the photo's asset
admin_delete_photo_asset(photo_id) == delete_image(posts[photo_id].public_id)

\* DELETE /admin/{photo_id}
admin_delete_photo(photo_id, user) ==
    LET gate == RoleAccess(admin_required, users[user].role)
    IN  /\ user \in UserIds
        /\ IF gate # 200
           THEN /\ last' = Response("admin_delete_photo", user, photo_id, gate)
                /\ UNCHANGED <<posts, comments, cloud>>
           ELSE IF ~admin_delete_photo_found(photo_id)
           THEN /\ last' = Response("admin_delete_photo", user, photo_id, 404)
                /\ UNCHANGED <<posts, comments, cloud>>
           ELSE /\ delete_post_rows(photo_id)
                /\ cloud' = admin_delete_photo_asset(photo_id)
                /\ last' = Response("admin_delete_photo", user, photo_id, 204)
        /\ UNCHANGED <<users, issued, post_seq, tags, comment_seq, inflight>>

\* ------------------------------------------------- photos: specification

\* the users the content specifications start with: accounts registered
\* through signup with these roles
ContentUsers ==
    <<UserRow(1, "ADMIN"), UserRow(2, "MODERATOR"), UserRow(3, "USER"),
      UserRow(4, "USER")>>

\* "Cat, cat, Dog"
Str_Cat_cat_Dog ==
    <<"C", "a", "t", ",", " ", "c", "a", "t", ",", " ", "D", "o", "g">>

\* "dog"
Str_dog == <<"d", "o", "g">>

\* ["CAT ,dog", "Dog"]
List_CAT_dog_Dog ==
    <<<<"C", "A", "T", " ", ",", "d", "o", "g">>, <<"D", "o", "g">>>>

\* ["Dog"]
List_Dog == <<<<"D", "o", "g">>>>

\* a PhotoUpdateSchema
Body(description, transformed_url, body_tags) ==
    [description |-> description, transformed_url |-> transformed_url,
     tags |-> body_tags]

\* path ids: every id handed out so far and one that was never handed out
PhotoIds == 1..(post_seq + 1)

\* the users of the photo specification
PhotoUsers == <<UserRow(1, "ADMIN"), UserRow(2, "MODERATOR"), UserRow(3, "USER")>>

InitWith(user_rows) ==
    /\ users = user_rows
    /\ issued = <<>>
    /\ posts = <<>>
    /\ post_seq = 0
    /\ tags = <<>>
    /\ comments = <<>>
    /\ comment_seq = 0
    /\ cloud = <<>>
    /\ inflight = <<>>
    /\ last = NoRequest

\* request values of the photo specification
PhotoDescriptions == {None, Some("d2")}

PhotoTagFields == {None, Some(Str_dog)}

PhotoBodies ==
    {Body(None, None, None), Body(Some("d2"), None, None),
     Body(None, Some("grayscale"), None), Body(None, None, Some(<<>>)),
     Body(Some("d2"), None, Some(List_Dog))}

\* the update requests of the photo specification: an empty one and one that
\* changes the description and the tags
AccessBodies == {Body(None, None, None), Body(Some("d2"), None, Some(List_Dog))}

NextPhotos ==
    \/ \E u \in UserIds, d \in PhotoDescriptions, t \in PhotoTagFields :
          post_seq < MaxPosts /\ create_photo(u, d, t)
    \/ \E u \in UserIds, p \in PhotoIds, b \in AccessBodies :
          update_photo_description(p, b, u)
    \/ \E u \in UserIds, p \in PhotoIds : delete_photo(p, u)
    \/ \E u \in UserIds, p \in PhotoIds, b \in AccessBodies :
          admin_update_photo(p, b, u)
    \/ \E u \in UserIds, p \in PhotoIds : admin_delete_photo(p, u)

InitPhotos == InitWith(PhotoUsers)

SpecPhotos == InitPhotos /\ [][NextPhotos]_vars

\* --------------------------------------------------------------- comments

\* create_comment_check without the lookup of the post
create_comment_check_no_lookup(body, user) == 201

\* repository create_comment, lines 58-60: db.get(Post, body.post_id), 404
create_comment_check(body, user) ==
    IF body.post_id \notin DOMAIN posts THEN 404 ELSE 201

\* POST / (comments): repository create_comment
create_comment(body, user) ==
    LET id == comment_seq + 1
        status == create_comment_check(body, user)
    IN  /\ user \in UserIds
        /\ IF status # 201
           THEN /\ last' = WithArg(Response("create_comment", user, 0, status), body)
                /\ UNCHANGED <<comments, comment_seq>>
           ELSE /\ comments' =
                      (id :> CommentRow(user, body.post_id, body.comment_content)) @@ comments
                /\ comment_seq' = id
                /\ last' = WithArg(Response("create_comment", user, id, 201), body)
        /\ UNCHANGED <<users, issued, posts, post_seq, tags, cloud, inflight>>

\* update_comment_check with the elevated roles let through
update_comment_check_elevated(comment_id, user) ==
    IF comment_id \notin DOMAIN comments THEN 404
    ELSE IF comments[comment_id].user_id # user
            /\ users[user].role \notin {"ADMIN", "MODERATOR"} THEN 403
    ELSE 200

\* repository update_comment, lines 88-95: load, 404, author check
update_comment_check(comment_id, user) ==
    IF comment_id \notin DOMAIN comments THEN 404
    ELSE IF comments[comment_id].user_id # user THEN 403
    ELSE 200

\* PUT /{comment_id}: CommentaryUpdateSchema.comment_content is required
update_comment(comment_id, body, user) ==
    LET status == update_comment_check(comment_id, user)
    IN  /\ user \in UserIds
        /\ last' = Response("update_comment", user, comment_id, status)
        /\ IF status = 200
           THEN comments' = [comments EXCEPT
                               ![comment_id].comment_content = body.comment_content]
           ELSE UNCHANGED comments
        /\ UNCHANGED <<users, issued, posts, post_seq, tags, comment_seq, cloud, inflight>>

\* routes/comment.py access_to_route_all = RoleAccess([Role.ADMIN, Role.MODERATOR])
access_to_route_all == <<"ADMIN", "MODERATOR">>

\* current_user.role == "ADMIN": the column holds a member of Role, a plain
\* enum.Enum, and a member of a plain Enum is equal to no str
enum_eq_str(member, str) == FALSE

\* services/auth_service.py is_owner_or_admin: user_id is the request's
\* user_id query parameter
is_owner_or_admin(user_id, current_user) ==
    IF enum_eq_str(users[current_user].role, "ADMIN") THEN 200
    ELSE IF current_user = user_id THEN 200
    ELSE 403

\* repository delete_comment: whether the id resolves to a comment to delete
delete_comment_found(comment_id) == comment_id \in DOMAIN comments

\* DELETE /{comment_id}?user_id=..: the route's dependencies, in the order
\* FastAPI resolves them (the decorator's first), then the repository call
delete_comment(comment_id, user_id, user) ==
    LET gate == RoleAccess(access_to_route_all, users[user].role)
        owner == is_owner_or_admin(user_id, user)
        status == IF gate # 200 THEN gate
                  ELSE IF owner # 200 THEN owner
                  ELSE IF ~delete_comment_found(comment_id) THEN 404
                  ELSE 204
    IN  /\ user \in UserIds
        /\ last' = Response("delete_comment", user, comment_id, status)
        /\ IF status = 204
           THEN comments' = Without(comments, {comment_id})
           ELSE UNCHANGED comments
        /\ UNCHANGED <<users, issued, posts, post_seq, tags, comment_seq, cloud, inflight>>

\* ------------------------------------------------ comments: specification

CommentIds == 1..(comment_seq + 1)

\* a CommentaryCreateSchema / CommentaryUpdateSchema
CommentBody(post_id, content) == [post_id |-> post_id, comment_content |-> content]

InitComments == InitWith(ContentUsers)

\* the users who upload and delete photos in the comment specification
Uploaders == {3}

NextComments ==
    \/ \E u \in Uploaders : post_seq < MaxPosts /\ create_photo(u, None, None)
    \/ \E u \in Uploaders, p \in PhotoIds : delete_photo(p, u)
    \/ \E u \in UserIds, p \in PhotoIds :
          comment_seq < MaxComments /\ create_comment(CommentBody(p, "c1"), u)
    \/ \E u \in UserIds, c \in CommentIds :
          update_comment(c, CommentBody(0, "c2"), u)
    \/ \E u \in UserIds, c \in CommentIds, q \in UserIds :
          delete_comment(c, q, u)

SpecComments == InitComments /\ [][NextComments]_vars

\* ----------------------------------------------------- photos: properties

\* the request handled last addressed an existing photo that the caller does
\* not own (read in the state before the request)
PhotoOfOther(r) ==
    /\ r.id \in DOMAIN posts
    /\ posts[r.id].user_id # r.caller

\* C2: update_photo_description and delete_photo called on an existing photo
\* by a user with role USER who is not its owner answer 403, and the photo
\* (its row and so its description, transformed_url and tags, and its
\* existence) and the tags table are as before.
C2_NonOwnerUserForbidden ==
    [][(/\ last'.op \in {"update_photo", "delete_photo"}
        /\ PhotoOfOther(last')
        /\ users[last'.caller].role = "USER")
       => (/\ last'.status = 403
           /\ posts' = posts
           /\ tags' = tags)]_vars

\* C2 happens: a USER was refused the deletion of somebody else's photo, which
\* is still there with its tags and description
C2_Witness ==
    /\ last.op = "delete_photo"
    /\ last.status = 403
    /\ PhotoOfOther(last)
    /\ users[last.caller].role = "USER"
    /\ posts[last.id].tags # <<>>
    /\ ~IsNone(posts[last.id].description)

\* C3 as claimed: photo update and photo delete on an existing photo succeed
\* for its owner and for an ADMIN who is not its owner.
C3_OwnerOrAdminSucceeds ==
    [][(/\ last'.op \in {"update_photo", "delete_photo"}
        /\ last'.id \in DOMAIN posts
        /\ \/ posts[last'.id].user_id = last'.caller
           \/ users[last'.caller].role = "ADMIN")
       => last'.status \in {200, 204}]_vars

\* --------------------------------------------------- comments: properties

\* C4: update_comment on an existing comment answers 200 for its author, and
\* for every other caller (ADMIN and MODERATOR included) answers 403 and
\* leaves the comments table, and so the comment's content, as it was.
C4_OnlyAuthorEdits ==
    [][(last'.op = "update_comment" /\ last'.id \in DOMAIN comments)
       => IF comments[last'.id].user_id = last'.caller
          THEN last'.status = 200
          ELSE last'.status = 403 /\ comments' = comments]_vars

\* C4 happens: an ADMIN was refused the edit of a comment written by another
\* user, and the comment still has the content it was created with
C4_Witness ==
    /\ last.op = "update_comment"
    /\ last.status = 403
    /\ users[last.caller].role = "ADMIN"
    /\ last.id \in DOMAIN comments
    /\ comments[last.id].user_id # last.caller
    /\ comments[last.id].comment_content = "c1"

\* C5 as claimed: deleting an existing comment succeeds for its author (of
\* any role) and for an ADMIN or MODERATOR, and removes the comment; for every
\* other caller it answers 403 and the comment stays.
C5_AuthorOrElevatedDeletes ==
    [][(last'.op = "delete_comment" /\ last'.id \in DOMAIN comments)
       => IF \/ comments[last'.id].user_id = last'.caller
             \/ users[last'.caller].role \in {"ADMIN", "MODERATOR"}
          THEN last'.status = 204 /\ last'.id \notin DOMAIN comments'
          ELSE last'.status = 403 /\ comments' = comments]_vars

\* the operations that change a photo or a comment
MutatingOps ==
    {"update_photo", "delete_photo", "transform_photo", "generate_qr_code",
     "update_comment", "delete_comment"}

\* the id of the request resolves to no photo, respectively no comment
NoSuchResource(r) ==
    IF r.op \in {"update_comment", "delete_comment"}
    THEN r.id \notin DOMAIN comments
    ELSE r.id \notin DOMAIN posts

\* C9 as claimed: a mutating operation on a photo or comment whose id resolves
\* to no resource answers 404, whoever calls it.
C9_NotFoundBeforeForbidden ==
    [][(last'.op \in MutatingOps /\ NoSuchResource(last'))
       => last'.status = 404]_vars

\* ---------------------------------------------------- auth: specifications

Emails == 1..MaxUsers

InitSignup == InitWith(<<>>)

NextSignup ==
    \E e \in Emails, r \in Role :
        Len(users) < MaxUsers /\ signup([username |-> e, email |-> e, role |-> r])

SpecSignup == InitSignup /\ [][NextSignup]_vars

\* C1 as claimed: the first user created has role ADMIN and every later one
\* has role USER, whatever the signup requests contain.
C1_FirstAdminRestUser ==
    \A i \in DOMAIN users : users[i].role = IF i = 1 THEN "ADMIN" ELSE "USER"

\* the users of the token specification, and an email nobody registered
TokenUsers == <<UserRow(1, "ADMIN"), UserRow(2, "USER")>>

UnknownEmail == 0

InitTokens == InitWith(TokenUsers)

\* the bearer credentials presented: every token issued and one never issued
Tokens == 1..(Len(issued) + 1)

\* the refresh request presenting t is one that issues a new token
RefreshIssues(t) ==
    IF IsNone(decode_refresh_token(t)) THEN FALSE
    ELSE ~refresh_token_mismatch(
             CHOOSE i \in get_user_by_email(issued[t].sub) : TRUE, t)

NextTokens ==
    \/ \E e \in {1, 2, UnknownEmail}, ok \in BOOLEAN :
          Len(issued) < MaxTokens /\ login(e, ok)
    \/ \E t \in Tokens :
          (RefreshIssues(t) => Len(issued) < MaxTokens) /\ refresh_token(t)

SpecTokens == InitTokens /\ [][NextTokens]_vars

\* the user a token was issued to
TokenUser(t) == CHOOSE i \in get_user_by_email(issued[t].sub) : TRUE

\* C6: a refresh request presenting a token that was issued to a user and is
\* no longer the user's stored refresh token (a later login replaced it)
\* answers 401 and leaves the user's stored refresh token empty.
C6_SupersededTokenRejected ==
    [][(/\ last'.op = "refresh_token"
        /\ last'.id \in DOMAIN issued
        /\ users[TokenUser(last'.id)].refresh_token # Some(last'.id))
       => (/\ last'.status = 401
           /\ IsNone(users'[TokenUser(last'.id)].refresh_token))]_vars

\* C6 happens: a user logged in twice, then presented the first login's token:
\* the request was refused and the stored token is empty
C6_Witness ==
    /\ last.op = "refresh_token"
    /\ last.status = 401
    /\ last.id = 1
    /\ Len(issued) = 2
    /\ issued[1] = [sub |-> 2, by |-> "login"]
    /\ issued[2] = [sub |-> 2, by |-> "login"]
    /\ IsNone(users[2].refresh_token)

\* --------------------------------------------------- tags: specification

\* the uploads of the tag specification
MaxTagPosts == 2

TagFields == {None, Some(Str_Cat_cat_Dog), Some(Str_dog)}

TagBodies ==
    {Body(None, None, Some(<<>>)), Body(None, None, Some(List_Dog)),
     Body(None, None, Some(List_CAT_dog_Dog))}

InitTags == InitWith(PhotoUsers)

NextTags ==
    \/ \E u \in Uploaders, t \in TagFields :
          post_seq < MaxTagPosts /\ create_photo(u, None, t)
    \/ \E u \in Uploaders, p \in PhotoIds, b \in TagBodies :
          update_photo_description(p, b, u)

SpecTags == InitTags /\ [][NextTags]_vars

\* the names of the tags attached to a photo, in order
TagNames(photo_id) ==
    [i \in DOMAIN posts[photo_id].tags |-> tags[posts[photo_id].tags[i]]]

\* C7 as claimed: no two rows of the tags table have names that are equal
\* when case is ignored.
C7_TagNamesUniqueIgnoringCase ==
    \A i, j \in DOMAIN tags : i # j => casefold(tags[i]) # casefold(tags[j])

\* the tags C8 expects of a tags form field: parts trimmed, empty parts
\* dropped, one spelling (the first) per case-folded name, in order
ClaimedUploadTags(tags_field) ==
    IF IsNone(tags_field) THEN <<>>
    ELSE normalize_tags(DropEmpty(StripAll(split(tags_field[1]))), {}, <<>>)

\* C8 as claimed: a successful upload attaches exactly the tags expected of
\* its tags form field ("Cat, cat, Dog" gives "Cat", "Dog").
C8_UploadTagsNormalized ==
    (last.op = "create_photo" /\ last.status = 201)
    => TagNames(last.id) = ClaimedUploadTags(last.arg)

\* -------------------------------------------------- roles: specification

\* the role check of a route on its own: the dependency is called with the
\* role of the resolved user and the roles the route permits
role_check(op, allowed_roles, role) ==
    /\ last' = WithArg(Response(op, 0, 0,
                                IF op = "RoleAccess"
                                THEN RoleAccess(allowed_roles, role)
                                ELSE role_checker(allowed_roles, role)),
                       [role |-> role, allowed_roles |-> allowed_roles])
    /\ UNCHANGED <<users, issued, posts, post_seq, tags, comments, comment_seq, cloud, inflight>>

\* the lists of at most MaxAllowed roles
RoleLists == UNION {[1..k -> Role] : k \in 0..MaxAllowed}

InitRoles == InitWith(<<>>)

NextRoles ==
    \/ \E l \in RoleLists, r \in Role : role_check("RoleAccess", l, r)
    \/ \E l \in RoleLists, r \in Role : role_check("role_checker", l, r)

SpecRoles == InitRoles /\ [][NextRoles]_vars

\* C10: the role check answers 200 when the user's role is one of the roles
\* permitted for the operation and 403 when it is not, for RoleAccess and for
\* require_role's role_checker alike.
C10_RoleCheckIsMembership ==
    last.op \in {"RoleAccess", "role_checker"}
    => /\ last.status \in {200, 403}
       /\ last.status = 200 <=> last.arg.role \in Range(last.arg.allowed_roles)

\* C10 happens: a MODERATOR met a route permitting ADMIN and USER, and was
\* refused
C10_Witness ==
    /\ last.op = "RoleAccess"
    /\ last.arg.role = "MODERATOR"
    /\ last.arg.allowed_roles = <<"ADMIN", "USER">>
    /\ last.status = 403

\* ------------------------------------------------- the ownership check

\* C11 as claimed: where the delete-comment route reaches is_owner_or_admin
\* (the role gate before it let the caller through) for an existing comment,
\* the check refuses with 403 exactly when the caller is neither the stored
\* author of the comment nor an ADMIN.
C11_OwnershipCheckOnStoredOwner ==
    [][(/\ last'.op = "delete_comment"
        /\ last'.id \in DOMAIN comments
        /\ RoleAccess(access_to_route_all, users[last'.caller].role) = 200)
       => (last'.status = 403
           <=> ~(\/ comments[last'.id].user_id = last'.caller
                 \/ users[last'.caller].role = "ADMIN"))]_vars

\* ------------------------------------------ photo fields: specification

\* the users of the photo-field specification; both upload
FieldUsers == <<UserRow(1, "ADMIN"), UserRow(2, "USER")>>

\* transformation names requested: a supported one and an unsupported one
TransformationNames == {"grayscale", "sepia"}

\* every operation that writes a field of an existing photo
NextFields ==
    \/ \E u \in UserIds, d \in PhotoDescriptions, t \in PhotoTagFields :
          post_seq < MaxPosts /\ create_photo(u, d, t)
    \/ \E u \in UserIds, p \in PhotoIds, b \in PhotoBodies :
          update_photo_description(p, b, u)
    \/ \E u \in UserIds, p \in PhotoIds, t \in TransformationNames :
          transform_photo(p, t, u)
    \/ \E u \in UserIds, p \in PhotoIds : generate_qr_code(p, u)
    \/ \E u \in UserIds, p \in PhotoIds, b \in PhotoBodies :
          admin_update_photo(p, b, u)

InitFields == InitWith(FieldUsers)

SpecFields == InitFields /\ [][NextFields]_vars

\* C12: update_photo_description called by the owner of an existing photo
\* keeps the photo and its url, public_id, user_id and qr_code_path, keeps
\* each of description, transformed_url and tags that the request leaves out,
\* and for a request that leaves out all three answers 200 with the posts and
\* tags tables as they were.
C12_PartialUpdateFrame ==
    [][(/\ last'.op = "update_photo"
        /\ last'.id \in DOMAIN posts
        /\ posts[last'.id].user_id = last'.caller)
       => /\ last'.id \in DOMAIN posts'
          /\ posts'[last'.id].url = posts[last'.id].url
          /\ posts'[last'.id].public_id = posts[last'.id].public_id
          /\ posts'[last'.id].user_id = posts[last'.id].user_id
          /\ posts'[last'.id].qr_code_path = posts[last'.id].qr_code_path
          /\ IsNone(last'.arg.description)
             => posts'[last'.id].description = posts[last'.id].description
          /\ IsNone(last'.arg.transformed_url)
             => posts'[last'.id].transformed_url = posts[last'.id].transformed_url
          /\ IsNone(last'.arg.tags)
             => posts'[last'.id].tags = posts[last'.id].tags
          /\ last'.arg = Body(None, None, None)
             => last'.status = 200 /\ posts' = posts /\ tags' = tags]_vars

\* C12 happens: the owner sent only a transformed_url for a photo that has a
\* description, tags and a QR code: the transformed_url is the request's and
\* the rest is still there
C12_Witness ==
    /\ last.op = "update_photo"
    /\ last.status = 200
    /\ last.arg = Body(None, Some("grayscale"), None)
    /\ posts[last.id].user_id = last.caller
    /\ posts[last.id].transformed_url = Some("grayscale")
    /\ posts[last.id].description = Some("d2")
    /\ posts[last.id].tags # <<>>
    /\ ~IsNone(posts[last.id].qr_code_path)

\* ---------------------------------------------- tag updates: properties

\* C13: when the owner of a photo repeats the update request answered just
\* before (same photo, same description, transformed_url and tags), the
\* answer is the same and the posts and tags tables are as the first call
\* left them.
C13_UpdateIdempotent ==
    [][(/\ last.op = "update_photo"
        /\ last'.op = "update_photo"
        /\ last'.caller = last.caller
        /\ last'.id = last.id
        /\ last'.arg = last.arg
        /\ last.id \in DOMAIN posts
        /\ posts[last.id].user_id = last.caller)
       => (/\ last'.status = last.status
           /\ posts' = posts
           /\ tags' = tags)]_vars

\* C13 happens: the owner's update with the tags ["CAT ,dog", "Dog"] was
\* answered 200 and created a tag, and the same request can be sent again
C13_Witness ==
    /\ last.op = "update_photo"
    /\ last.status = 200
    /\ last.arg.tags = Some(List_CAT_dog_Dog)
    /\ posts[last.id].user_id = last.caller
    /\ Len(posts[last.id].tags) = 2
    /\ \E i \in DOMAIN tags : tags[i] = <<"C", "A", "T">>

\* --------------------------------------------- photo fields: properties

\* C14: a photo that exists before and after a step has the same user_id, and
\* a photo that a step creates has the uploading caller as its user_id; so
\* every photo's user_id is its uploader's id in every reachable state.
C14_OwnerIsUploader ==
    [][/\ \A p \in DOMAIN posts \cap DOMAIN posts' :
            posts'[p].user_id = posts[p].user_id
       /\ \A p \in DOMAIN posts' \ DOMAIN posts :
            /\ last'.op = "create_photo"
            /\ last'.id = p
            /\ posts'[p].user_id = last'.caller]_vars

\* C14 happens: the ADMIN updated a photo that user 2 uploaded, after user 2
\* transformed it and generated its QR code, and user 2 still owns it
C14_Witness ==
    /\ last.op = "admin_update_photo"
    /\ last.status = 200
    /\ last.caller = 1
    /\ posts[last.id].user_id = 2
    /\ posts[last.id].description = Some("d2")
    /\ posts[last.id].transformed_url = Some("grayscale")
    /\ ~IsNone(posts[last.id].qr_code_path)

\* --------------------------------------------- refresh tokens: one per user

\* C15: a successful login or refresh stores the token it issues as the
\* user's refresh token, and a refresh request is accepted only for the token
\* issued last to its user: every token issued to the user before that one is
\* refused.
C15_OnlyLatestTokenAccepted ==
    [][/\ (last'.op \in {"login", "refresh_token"} /\ last'.status = 200)
          => /\ Len(issued') = Len(issued) + 1
             /\ users'[last'.caller].refresh_token = Some(Len(issued'))
       /\ (last'.op = "refresh_token" /\ last'.status = 200)
          => /\ last'.id \in DOMAIN issued
             /\ \A t \in DOMAIN issued :
                   issued[t].sub = issued[last'.id].sub => t <= last'.id]_vars

\* C15 happens: user 2 logged in, refreshed with the login's token and then
\* presented the login's token again, which was refused
C15_Witness ==
    /\ last.op = "refresh_token"
    /\ last.status = 401
    /\ last.id = 1
    /\ Len(issued) = 2
    /\ issued[1] = [sub |-> 2, by |-> "login"]
    /\ issued[2] = [sub |-> 2, by |-> "refresh"]

\* ------------------------------------------------ deletion and the asset

\* C16 as claimed: whenever a step removes a photo row, the asset host has
\* been asked to delete the asset with the photo's public_id, which it no
\* longer hosts after the step.
C16_DeletionRequestsAssetDeletion ==
    [][\A p \in DOMAIN posts \ DOMAIN posts' : ~cloud'[posts[p].public_id]]_vars

\* ------------------------------------------------ accounts: specification

\* usernames requested at signup and in profile updates
Usernames == 1..MaxUsers

\* profile updates: the username left out, or set
UserUpdates == {[username |-> None]} \cup {[username |-> Some(n)] : n \in Usernames}

InitAccounts == InitWith(<<>>)

NextAccounts ==
    \/ \E n \in Usernames, e \in Emails :
          Len(users) < MaxUsers
          /\ signup([username |-> n, email |-> e, role |-> "USER"])
    \/ \E u \in UserIds, b \in UserUpdates : update_me(b, u)

SpecAccounts == InitAccounts /\ [][NextAccounts]_vars

\* the request asks for a username or an email that another user has
AsksForTaken(r) ==
    \/ /\ r.op = "signup"
       /\ \/ get_user_by_email(r.arg.email) # {}
          \/ get_user_by_username(r.arg.username) # {}
    \/ /\ r.op = "update_me"
       /\ ~IsNone(r.arg.username)
       /\ get_user_by_username(r.arg.username[1]) \ {r.caller} # {}

\* C17 as claimed: a signup or a profile update asking for a username or an
\* email that another user has answers 409 and leaves the users table as it
\* was; after every step usernames are pairwise distinct and emails are
\* pairwise distinct.
C17_DuplicateIsConflict ==
    [][/\ AsksForTaken(last') => (last'.status = 409 /\ users' = users)
       /\ \A i, j \in DOMAIN users' :
             i # j => /\ users'[i].username # users'[j].username
                      /\ users'[i].email # users'[j].email]_vars

\* ------------------------------------------- tag normalisation on its own

\* the characters of the tags lists tried, and the most a list holds in all
MaxChars == 4

TagChars == {"C", "c", "d", ",", " "}

TagStrings(n) == UNION {[1..k -> TagChars] : k \in 0..n}

\* PhotoUpdateSchema.tags: the lists of at most two strings
TagLists ==
    {<<>>} \cup {<<s>> : s \in TagStrings(MaxChars)}
    \cup UNION {{<<s, t>> : t \in TagStrings(MaxChars - Len(s))} :
                s \in TagStrings(MaxChars)}

\* a tags list arrives
InitNormalize ==
    /\ users = <<>>
    /\ issued = <<>> /\ posts = <<>> /\ post_seq = 0 /\ tags = <<>>
    /\ comments = <<>> /\ comment_seq = 0 /\ cloud = <<>> /\ inflight = <<>>
    /\ last \in {WithArg(Response("tags", 0, 0, 0), l) : l \in TagLists}

\* lines 82-92 of update_photo_description applied to the list that arrived
normalize ==
    /\ last.op = "tags"
    /\ last' = WithArg(Response("normalized_tags", 0, 0, 200),
                       [tags |-> last.arg, names |-> normalized_tags(last.arg)])
    /\ UNCHANGED <<users, issued, posts, post_seq, tags, comments, comment_seq,
                   cloud, inflight>>

NextNormalize == normalize

SpecNormalize == InitNormalize /\ [][NextNormalize]_vars

\* two characters that differ at most in case
SameLetter(x, y) ==
    \/ x = y
    \/ {x, y} \in {{"A", "a"}, {"C", "c"}, {"D", "d"}, {"G", "g"}, {"O", "o"},
                   {"T", "t"}}

\* two names that differ at most in case
SameIgnoringCase(a, b) ==
    Len(a) = Len(b) /\ \A i \in 1..Len(a) : SameLetter(a[i], b[i])

\* the items joined and split on commas, each part trimmed, empty parts dropped
ClaimedParts(l) == DropEmpty(StripAll(split(join(l))))

\* the positions of the parts that no earlier part equals when case is ignored
FirstSeen(parts) ==
    {i \in DOMAIN parts :
        \A j \in 1..(i - 1) : ~SameIgnoringCase(parts[j], parts[i])}

\* the k-th of a set of positions, in increasing order
KthOf(positions, k) ==
    CHOOSE i \in positions : Cardinality({j \in positions : j < i}) = k - 1

\* C18: the names update_photo_description resolves for a tags list are the
\* first-seen parts of the list in their first-seen order and spelling; none
\* of them is empty, holds a comma, or starts or ends with a space.
C18_NormalizedTagNames ==
    last.op = "normalized_tags"
    => LET parts == ClaimedParts(last.arg.tags)
           names == last.arg.names
       IN  /\ Len(names) = Cardinality(FirstSeen(parts))
           /\ \A k \in DOMAIN names : names[k] = parts[KthOf(FirstSeen(parts), k)]
           /\ \A k \in DOMAIN names :
                 /\ names[k] # <<>>
                 /\ "," \notin Range(names[k])
                 /\ names[k][1] # " "
                 /\ names[k][Len(names[k])] # " "

\* C18 happens: the list ["c,C", "d"] gave the names "c" and "d"
C18_Witness ==
    /\ last.op = "normalized_tags"
    /\ last.arg.tags = <<<<"c", ",", "C">>, <<"d">>>>
    /\ last.arg.names = <<<<"c">>, <<"d">>>>

\* ------------------------------------------------ tag updates: full replace

\* C19 as claimed: update_photo_description called by the owner of an
\* existing photo with a tags list answers 200 and leaves the photo with
\* exactly the tags the list names (each once, names compared ignoring case,
\* none when the list names none), every row of the tags table as it was, and
\* every other photo as it was.
C19_TagSetReplaced ==
    [][(/\ last'.op = "update_photo"
        /\ last'.id \in DOMAIN posts
        /\ posts[last'.id].user_id = last'.caller
        /\ ~IsNone(last'.arg.tags))
       => LET parts == ClaimedParts(last'.arg.tags[1])
              attached == posts'[last'.id].tags
          IN  /\ last'.status = 200
              /\ ~HasDuplicates(attached)
              /\ \A k \in DOMAIN attached : \E i \in DOMAIN parts :
                    SameIgnoringCase(tags'[attached[k]], parts[i])
              /\ \A i \in DOMAIN parts : \E k \in DOMAIN attached :
                    SameIgnoringCase(tags'[attached[k]], parts[i])
              /\ \A t \in DOMAIN tags : t \in DOMAIN tags' /\ tags'[t] = tags[t]
              /\ \A q \in DOMAIN posts \ {last'.id} :
                    q \in DOMAIN posts' /\ posts'[q] = posts[q]]_vars

\* -------------------------------------- concurrent requests: specification
\*
\* create_photo and update_photo_description handled statement by statement,
\* each request in its own database transaction: a SELECT sees the committed
\* rows, an INSERT is pending until the COMMIT, and the unique index of
\* tags.name makes an INSERT wait for a pending INSERT of the same name and
\* fail once that one is committed.  The requests of this specification carry
\* one tag name.

MaxRequests == 2

MaxRacePosts == 2

\* "dog" and "Dog"
RaceNames == {Str_dog, <<"D", "o", "g">>}

\* a request in flight: pc is the statement it is at, asset what the asset
\* host answered to its upload (None for an update), tag the Tag row the
\* SELECT found, inserted whether it has a pending INSERT of its name
Request(op, user, photo_id, name, asset) ==
    [op |-> op, user |-> user, photo_id |-> photo_id, name |-> name,
     asset |-> asset, pc |-> "select", tag |-> None, inserted |-> FALSE]

\* the requests in flight without the i-th
Finish(i) == SubSeq(inflight, 1, i - 1) \o SubSeq(inflight, i + 1, Len(inflight))

\* repository create_photo, line 35: the upload to the asset host
begin_create_photo(user, name) ==
    /\ user \in UserIds
    /\ cloud' = uploaded
    /\ inflight' = Append(inflight, Request("create_photo", user, 0, name,
                                             Some(upload_image)))
    /\ UNCHANGED <<users, issued, posts, post_seq, tags, comments, comment_seq, last>>

\* repository update_photo_description, lines 62-70: load, 404, owner check
begin_update_photo(photo_id, name, user) ==
    LET status == update_photo_check(photo_id, user)
    IN  /\ user \in UserIds
        /\ IF status # 200
           THEN /\ last' = WithArg(Response("update_photo", user, photo_id, status),
                                   Body(None, None, Some(<<name>>)))
                /\ UNCHANGED inflight
           ELSE /\ inflight' = Append(inflight, Request("update_photo", user, photo_id,
                                                  name, None))
                /\ UNCHANGED last
        /\ UNCHANGED <<users, issued, posts, post_seq, tags, comments, comment_seq, cloud>>

\* the answer of a request and the body it was sent with
RaceResponse(r, id, status) ==
    WithArg(Response(r.op, r.user, id, status),
            IF r.op = "create_photo" THEN Some(r.name)
            ELSE Body(None, None, Some(<<r.name>>)))

\* lines 40-41 and 96-97: the SELECT of the tag and scalar_one_or_none()
tag_select(i) ==
    LET r == inflight[i]
        found == IF r.op = "create_photo" THEN TagsByName(tags, r.name)
                 ELSE TagsByLowerName(tags, r.name)
    IN  /\ r.pc = "select"
        /\ IF Cardinality(found) > 1
           THEN /\ inflight' = Finish(i)
                /\ last' = RaceResponse(r, r.photo_id, 500)
           ELSE /\ inflight' = [inflight EXCEPT ![i] =
                      IF found = {} THEN [r EXCEPT !.pc = "flush"]
                      ELSE [r EXCEPT !.pc = "commit",
                                     !.tag = Some(CHOOSE t \in found : TRUE)]]
                /\ UNCHANGED last
        /\ UNCHANGED <<users, issued, posts, post_seq, tags, comments, comment_seq, cloud>>

\* lines 42-45 and 98-101: Tag(name=tag_name), db.add, db.flush().  The INSERT
\* waits while another transaction has a pending INSERT of the name; with the
\* name committed it raises IntegrityError, which nothing catches
tag_flush(i) ==
    LET r == inflight[i]
    IN  /\ r.pc = "flush"
        /\ \A j \in DOMAIN inflight :
              ~(j # i /\ inflight[j].inserted /\ inflight[j].name = r.name)
        /\ IF TagsByName(tags, r.name) # {}
           THEN /\ inflight' = Finish(i)
                /\ last' = RaceResponse(r, r.photo_id, 500)
           ELSE /\ inflight' = [inflight EXCEPT ![i] =
                                   [r EXCEPT !.pc = "commit", !.inserted = TRUE]]
                /\ UNCHANGED last
        /\ UNCHANGED <<users, issued, posts, post_seq, tags, comments, comment_seq, cloud>>

\* lines 46-58 and 102-115: the tag goes to the photo and db.commit()
commit(i) ==
    LET r == inflight[i]
        tag_id == IF r.inserted THEN Len(tags) + 1 ELSE r.tag[1]
        id == post_seq + 1
    IN  /\ r.pc = "commit"
        /\ tags' = IF r.inserted THEN Append(tags, r.name) ELSE tags
        /\ IF r.op = "create_photo"
           THEN /\ posts' = (id :> PostRow(r.user, None, <<tag_id>>, r.asset[1])) @@ posts
                /\ post_seq' = id
                /\ last' = RaceResponse(r, id, 201)
           ELSE /\ posts' = [posts EXCEPT ![r.photo_id].tags = <<tag_id>>]
                /\ UNCHANGED post_seq
                /\ last' = RaceResponse(r, r.photo_id, 200)
        /\ inflight' = Finish(i)
        /\ UNCHANGED <<users, issued, comments, comment_seq, cloud>>

InitRace == InitWith(PhotoUsers)

NextRace ==
    \/ \E u \in Uploaders, n \in RaceNames :
          /\ Len(inflight) < MaxRequests
          /\ Len(cloud) < MaxRacePosts
          /\ begin_create_photo(u, n)
    \/ \E u \in Uploaders, p \in PhotoIds, n \in RaceNames :
          Len(inflight) < MaxRequests /\ begin_update_photo(p, n, u)
    \/ \E i \in DOMAIN inflight : tag_select(i)
    \/ \E i \in DOMAIN inflight : tag_flush(i)
    \/ \E i \in DOMAIN inflight : commit(i)

SpecRace == InitRace /\ [][NextRace]_vars

\* C20 as claimed: a request that found its tag name missing and went on to
\* create the tag ends successfully (201 or 200) with a tag of that name
\* attached to its photo, also when another request created the name in the
\* meantime; and the tags table never holds one name twice.
C20_TagCreationRaceTolerated ==
    [][/\ \A i \in DOMAIN inflight :
             (inflight[i].pc = "flush" /\ inflight' = Finish(i))
             => /\ last'.status \in {200, 201}
                /\ last'.id \in DOMAIN posts'
                /\ \E k \in DOMAIN posts'[last'.id].tags :
                      tags'[posts'[last'.id].tags[k]] = inflight[i].name
       /\ ~HasDuplicates(tags')]_vars

\* ------------------------------------ concurrent registrations: crud.py
\*
\* crud.py create_user handled statement by statement, each call with its own
\* database session: the count of the users sees the committed rows.

\* a registration in flight: pc is the statement it is at, role the role it
\* chose from the count
Registration(email) ==
    [op |-> "crud_create_user", username |-> email, email |-> email,
     pc |-> "count", role |-> None]

\* a call of crud.py create_user arrives
begin_create_user(email) ==
    /\ inflight' = Append(inflight, Registration(email))
    /\ UNCHANGED <<users, issued, posts, post_seq, tags, comments, comment_seq,
                   cloud, last>>

\* crud.py lines 7-8: user_count = db.query(User).count() and the role
count_users(i) ==
    LET r == inflight[i]
        user_count == Len(users)
        role == IF user_count = 0 THEN "ADMIN" ELSE "USER"
    IN  /\ r.op = "crud_create_user"
        /\ r.pc = "count"
        /\ inflight' = [inflight EXCEPT ![i] =
                           [r EXCEPT !.pc = "insert", !.role = Some(role)]]
        /\ UNCHANGED <<users, issued, posts, post_seq, tags, comments, comment_seq,
                       cloud, last>>

\* crud.py lines 10-19: User(...), db.add, db.commit(); the unique columns
\* username and email refuse a row that repeats one
insert_user(i) ==
    LET r == inflight[i]
        body == [username |-> r.username, email |-> r.email, role |-> r.role[1]]
    IN  /\ r.op = "crud_create_user"
        /\ r.pc = "insert"
        /\ IF get_user_by_email(r.email) # {} \/ ~username_unique(r.username, 0)
           THEN /\ last' = WithArg(Response(r.op, 0, 0, 500), body)
                /\ UNCHANGED users
           ELSE /\ users' = Append(users, create_user(body))
                /\ last' = WithArg(Response(r.op, 0, Len(users) + 1, 201), body)
        /\ inflight' = Finish(i)
        /\ UNCHANGED <<issued, posts, post_seq, tags, comments, comment_seq, cloud>>

InitRegister == InitWith(<<>>)

NextRegister ==
    \/ \E e \in Emails :
          /\ Len(inflight) < MaxRequests
          /\ Len(users) + Len(inflight) < MaxUsers
          /\ begin_create_user(e)
    \/ \E i \in DOMAIN inflight : count_users(i)
    \/ \E i \in DOMAIN inflight : insert_user(i)

SpecRegister == InitRegister /\ [][NextRegister]_vars

\* C21 as claimed: however the count and insert steps of concurrent
\* registrations interleave, at most one user has role ADMIN.
C21_AtMostOneAdmin ==
    Cardinality({i \in DOMAIN users : users[i].role = "ADMIN"}) <= 1

\* ------------------------------------- concurrent refreshes: routes/auth.py
\*
\* refresh_token handled in two steps, each request with its own database
\* session: the user row is loaded and compared (lines 101-104), and later
\* update_token commits (line 105 or lines 107-109).  An issued token records
\* in presented the token whose refresh request it answered.

\* lines 101-104: decode the token, load its user, compare the stored token
begin_refresh(token) ==
    LET email == decode_refresh_token(token)
        user == CHOOSE i \in get_user_by_email(email[1]) : TRUE
    IN  /\ IF IsNone(email)
           THEN /\ last' = Response("refresh_token", 0, token, 401)
                /\ UNCHANGED inflight
           ELSE /\ inflight' = Append(inflight,
                      [op |-> "refresh_token", token |-> token, user |-> user,
                       email |-> email[1],
                       pc |-> IF refresh_token_mismatch(user, token)
                              THEN "clear" ELSE "rotate"])
                /\ UNCHANGED last
        /\ UNCHANGED <<users, issued, posts, post_seq, tags, comments, comment_seq,
                       cloud>>

\* line 105 (the stored token is cleared, 401) or lines 107-110 (a new token
\* is issued and stored, 200)
finish_refresh(i) ==
    LET r == inflight[i]
    IN  /\ r.op = "refresh_token"
        /\ IF r.pc = "clear"
           THEN /\ users' = update_token(r.user, None)
                /\ last' = Response("refresh_token", r.user, r.token, 401)
                /\ UNCHANGED issued
           ELSE /\ issued' = Append(issued, [sub |-> r.email, by |-> "refresh",
                                             presented |-> r.token])
                /\ users' = update_token(r.user, Some(Len(issued) + 1))
                /\ last' = Response("refresh_token", r.user, r.token, 200)
        /\ inflight' = Finish(i)
        /\ UNCHANGED <<posts, post_seq, tags, comments, comment_seq, cloud>>

\* the refresh requests in flight that will issue a token
Rotating == {i \in DOMAIN inflight : inflight[i].pc = "rotate"}

InitRefreshRace == InitWith(TokenUsers)

NextRefreshRace ==
    \/ \E e \in {1, 2} :
          Len(issued) + Cardinality(Rotating) < MaxTokens /\ login(e, TRUE)
    \/ \E t \in Tokens :
          /\ Len(inflight) < MaxRequests
          /\ Len(issued) + Cardinality(Rotating) < MaxTokens
          /\ begin_refresh(t)
    \/ \E i \in DOMAIN inflight : finish_refresh(i)

SpecRefreshRace == InitRefreshRace /\ [][NextRefreshRace]_vars

\* C22 as claimed: no token is accepted by two refresh requests, that is, no
\* two issued tokens answer refresh requests that presented the same token.
C22_TokenAcceptedOnce ==
    \A s, t \in DOMAIN issued :
        (/\ issued[s].by = "refresh"
         /\ issued[t].by = "refresh"
         /\ issued[s].presented = issued[t].presented)
        => s = t

\* ------------------------------------------------- comments: creation

\* C23: create_comment for an existing post answers 201 for every caller and
\* adds one comment whose user_id is the caller and whose post_id is that
\* post, leaving the other comments as they were; for a post id that resolves
\* to no post it answers 404 and leaves the comments table as it was.
C23_CommentOnAnyExistingPhoto ==
    [][last'.op = "create_comment"
       => IF last'.arg.post_id \in DOMAIN posts
          THEN /\ last'.status = 201
               /\ DOMAIN comments' = DOMAIN comments \cup {last'.id}
               /\ last'.id \notin DOMAIN comments
               /\ comments'[last'.id].user_id = last'.caller
               /\ last'.caller \in DOMAIN users
               /\ comments'[last'.id].post_id = last'.arg.post_id
               /\ \A c \in DOMAIN comments : comments'[c] = comments[c]
          ELSE /\ last'.status = 404
               /\ comments' = comments]_vars

\* C23 happens: a MODERATOR commented on a photo that user 3 uploaded
C23_Witness ==
    /\ last.op = "create_comment"
    /\ last.status = 201
    /\ users[last.caller].role = "MODERATOR"
    /\ comments[last.id].user_id = last.caller
    /\ comments[last.id].post_id \in DOMAIN posts
    /\ posts[comments[last.id].post_id].user_id = 3

\* ------------------------------------- photos: transform and QR by others

\* C24 as claimed: transform_photo and generate_qr_code called for an existing
\* photo by a user who does not own it answer 403, and the photo's
\* transformed_url and qr_code_path stay as they were.
C24_NonOwnerIsForbidden ==
    [][(/\ last'.op \in {"transform_photo", "generate_qr_code"}
        /\ last'.id \in DOMAIN posts
        /\ posts[last'.id].user_id # last'.caller)
       => /\ last'.status = 403
          /\ posts'[last'.id].transformed_url = posts[last'.id].transformed_url
          /\ posts'[last'.id].qr_code_path = posts[last'.id].qr_code_path]_vars

\* ------------------------------------------------- accounts: privileges

\* signup requests asking for any role, and profile updates
NextPrivileges ==
    \/ \E e \in Emails, r \in Role :
          Len(users) < MaxUsers /\ signup([username |-> e, email |-> e, role |-> r])
    \/ \E u \in UserIds, b \in UserUpdates : update_me(b, u)

InitPrivileges == InitWith(<<>>)

SpecPrivileges == InitPrivileges /\ [][NextPrivileges]_vars

\* C25 as claimed: whatever signup and profile-update requests were made, no
\* account other than the first registered one has role ADMIN or MODERATOR.
C25_NoSelfEscalation ==
    \A i \in DOMAIN users : i # 1 => users[i].role \notin {"ADMIN", "MODERATOR"}

\* ------------------------------------------- photos: QR code and its url

\* update requests that touch transformed_url: one giving a url, one giving
\* the empty string, and one leaving it out
QrBodies ==
    {Body(None, Some("grayscale"), None), Body(None, Some(""), None),
     Body(Some("d2"), None, None)}

\* the operations that write transformed_url or qr_code_path
NextQr ==
    \/ \E u \in UserIds, d \in PhotoDescriptions, t \in PhotoTagFields :
          post_seq < MaxPosts /\ create_photo(u, d, t)
    \/ \E u \in UserIds, p \in PhotoIds, b \in QrBodies :
          update_photo_description(p, b, u)
    \/ \E u \in UserIds, p \in PhotoIds, t \in TransformationNames :
          transform_photo(p, t, u)
    \/ \E u \in UserIds, p \in PhotoIds : generate_qr_code(p, u)

InitQr == InitWith(FieldUsers)

SpecQr == InitQr /\ [][NextQr]_vars

\* C26 as claimed: in every reachable state a photo whose qr_code_path is set
\* has a transformed_url that is set and not empty.
C26_QrImpliesTransformed ==
    \A p \in DOMAIN posts :
        ~IsNone(posts[p].qr_code_path)
            => (~IsNone(posts[p].transformed_url) /\ posts[p].transformed_url[1] # "")

====
